---- MODULE Spec2Model ----
(***************************************************************************)
(* A model of predict.py of tw-stock-predictor: the retrying downloader    *)
(* (download_with_retry), the pipeline run by main (fetch_latest_data,     *)
(* calculate_changes, predict_opening) and the module-level script that    *)
(* persists its prediction to predictions.csv and latest_prediction.json.  *)
(*                                                                         *)
(* Floating-point values are modelled as exact rationals extended with the *)
(* IEEE specials the code can produce (inf, nan): numpy's float64 division *)
(* by zero yields inf or nan and raises nothing.  Rounding error of binary *)
(* floating point is not modelled.                                         *)
(***************************************************************************)
EXTENDS Integers, Sequences, FiniteSets, TLC

VARIABLES
    max_retries,      \* download_with_retry: parameter max_retries
    attempt,          \* download_with_retry: loop variable of range(max_retries)
    fpc,              \* download_with_retry: "idle" | "loop" | "returned"
    calls,            \* number of yf.download calls made by this fetch
    sleeps,           \* time.sleep calls made by this fetch, in order
    outcomes,         \* what each yf.download call of this fetch produced
    ret,              \* return value of download_with_retry
    pc,               \* position of main / of the specification's driver
    tidx,             \* fetch_latest_data: index of the ticker being fetched
    downloaded_data,  \* fetch_latest_data / calculate_changes: dict ticker -> bars
    calculated_data,  \* calculate_changes: dict ticker -> change record
    prediction,       \* predict_opening's return value
    exit_code,        \* process exit status, -1 while running
    exit_via,         \* which statement ended the process
    spc,              \* position of the module-level script
    frames,           \* script: the six downloaded frames, dict ticker -> bars
    weighted_change,  \* script: global weighted_change
    confidence,       \* script: global confidence
    csv_rows,         \* number of rows in predictions.csv, -1 when absent
    json_written,     \* latest_prediction.json was overwritten by this run
    io_log            \* script: persistence operations attempted, in order

fetchVars == <<max_retries, attempt, fpc, calls, sleeps, outcomes, ret>>
mainVars == <<pc, tidx, downloaded_data, calculated_data, prediction>>
exitVars == <<exit_code, exit_via>>
scriptVars == <<spc, frames, weighted_change, confidence, csv_rows, json_written, io_log>>
vars == <<fetchVars, mainVars, exitVars, scriptVars>>

----------------------------------------------------------------------------
(* Bounds of the model *)

MaxRetriesBound == 3
MaxClose == 1
MaxBars == 3
MaxCsvRows == 1

----------------------------------------------------------------------------
(* Numbers: rationals n/d in lowest terms with d > 0, plus inf and nan *)

Abs(x) == IF x < 0 THEN -x ELSE x

Sgn(x) == IF x < 0 THEN -1 ELSE IF x > 0 THEN 1 ELSE 0

RECURSIVE GCD(_, _)
GCD(a, b) == IF b = 0 THEN a ELSE GCD(b, a % b)

Fin(n, d) ==
    LET s == IF d < 0 THEN -1 ELSE 1
        g == GCD(Abs(n), Abs(d))
    IN  [t |-> "fin", n |-> (s * n) \div g, d |-> Abs(d) \div g]

NaN == [t |-> "nan", n |-> 0, d |-> 1]

Inf(s) == [t |-> "inf", n |-> s, d |-> 1]

Num(i) == Fin(i, 1)

IsFin(a) == a.t = "fin"

FSign(a) == Sgn(a.n)

FNeg(a) == [a EXCEPT !.n = -a.n]

FAbs(a) == [a EXCEPT !.n = Abs(a.n)]

FAdd(a, b) ==
    IF a.t = "nan" \/ b.t = "nan" THEN NaN
    ELSE IF a.t = "inf" /\ b.t = "inf" THEN (IF a.n = b.n THEN a ELSE NaN)
    ELSE IF a.t = "inf" THEN a
    ELSE IF b.t = "inf" THEN b
    ELSE Fin(a.n * b.d + b.n * a.d, a.d * b.d)

FSub(a, b) == FAdd(a, FNeg(b))

FMul(a, b) ==
    IF a.t = "nan" \/ b.t = "nan" THEN NaN
    ELSE IF a.t = "inf" \/ b.t = "inf"
         THEN (IF FSign(a) * FSign(b) = 0 THEN NaN ELSE Inf(FSign(a) * FSign(b)))
    ELSE Fin(a.n * b.n, a.d * b.d)

\* numpy float64 division: x / 0 is inf (x # 0) or nan (x = 0), never an exception
FDiv(a, b) ==
    IF a.t = "nan" \/ b.t = "nan" THEN NaN
    ELSE IF b.t = "inf" THEN (IF a.t = "inf" THEN NaN ELSE Num(0))
    ELSE IF b.n = 0 THEN (IF FSign(a) = 0 THEN NaN ELSE Inf(FSign(a)))
    ELSE IF a.t = "inf" THEN Inf(FSign(a) * FSign(b))
    ELSE Fin(a.n * b.d, a.d * b.n)

\* a > b; every comparison with nan is False
FGt(a, b) ==
    IF a.t = "nan" \/ b.t = "nan" THEN FALSE
    ELSE IF a.t = "inf" THEN a.n = 1 /\ ~(b.t = "inf" /\ b.n = 1)
    ELSE IF b.t = "inf" THEN b.n = -1
    ELSE a.n * b.d > b.n * a.d

\* int(x) of a finite non-negative or negative value: truncation toward zero
IntTrunc(a) == IF a.n >= 0 THEN a.n \div a.d ELSE -((-a.n) \div a.d)

RECURSIVE Pow2(_)
Pow2(k) == IF k = 0 THEN 1 ELSE 2 * Pow2(k - 1)

----------------------------------------------------------------------------
(* Configuration *)

MODEL_WEIGHTS ==
    [tsm |-> Fin(35, 100), sox |-> Fin(25, 100), nasdaq |-> Fin(20, 100),
     sp500 |-> Fin(15, 100), currency |-> Fin(5, 100)]

MODEL_PARAMS ==
    [avgError |-> Num(127), stdDev |-> Num(85), accuracy |-> Fin(87, 100),
     volatility |-> Fin(115, 100)]

DefaultMaxRetries == 3

MinInstruments == 4

\* the tickers dict of fetch_latest_data, in insertion order
TickerOrder == <<"^GSPC", "^IXIC", "^SOX", "TSM", "USDTWD=X", "^TWII">>

Tickers == {TickerOrder[i] : i \in 1..Len(TickerOrder)}

\* keys predict_opening reads from calculated_data
RequiredTickers == {"^GSPC", "^IXIC", "^SOX", "TSM", "USDTWD=X", "^TWII"}

----------------------------------------------------------------------------
(* The market data provider *)

\* closing prices of the bars a successful yf.download returns, oldest first
ProviderBars == {<<100>>, <<100, 101>>, <<0, 5>>}

\* An exception message, abstracted to the set of marker substrings it contains
ErrorMarkers == {"No timezone found", "symbol may be delisted", "Connection", "timeout"}

ErrorMsgs == SUBSET ErrorMarkers

None == [isNone |-> TRUE, bars |-> <<>>]

Some(b) == [isNone |-> FALSE, bars |-> b]

EmptyDict == [t \in {} |-> None]

----------------------------------------------------------------------------
(* download_with_retry *)

ClassifyError(msg) ==
    IF "No timezone found" \in msg \/ "symbol may be delisted" \in msg THEN "permanent"
    ELSE IF "Connection" \in msg \/ "timeout" \in msg THEN "transient"
    ELSE "unknown"

WaitTime(a) == Pow2(a)

\* the for loop moves to its next iteration or, exhausted, the function returns None
NextIteration ==
    /\ attempt' = attempt + 1
    /\ IF attempt + 1 < max_retries
       THEN fpc' = "loop" /\ ret' = ret
       ELSE fpc' = "returned" /\ ret' = None

\* Faulty variant: a success on the last allowed attempt is discarded
AttemptSuccessDiscardsLast(bars) ==
    /\ fpc = "loop"
    /\ Len(bars) > 0
    /\ calls' = calls + 1
    /\ outcomes' = Append(outcomes, [kind |-> "ok", bars |-> bars])
    /\ ret' = IF attempt = max_retries - 1 THEN None ELSE Some(bars)
    /\ fpc' = "returned"
    /\ UNCHANGED <<max_retries, attempt, sleeps>>

AttemptSuccess(bars) ==
    /\ fpc = "loop"
    /\ Len(bars) > 0
    /\ calls' = calls + 1
    /\ outcomes' = Append(outcomes, [kind |-> "ok", bars |-> bars])
    /\ ret' = Some(bars)
    /\ fpc' = "returned"
    /\ UNCHANGED <<max_retries, attempt, sleeps>>

AttemptEmpty ==
    /\ fpc = "loop"
    /\ calls' = calls + 1
    /\ outcomes' = Append(outcomes, [kind |-> "empty", bars |-> <<>>])
    /\ NextIteration
    /\ UNCHANGED <<max_retries, sleeps>>

\* Faulty variant: a permanent error is retried like any other error
AttemptPermanentErrorRetries(msg) ==
    /\ fpc = "loop"
    /\ ClassifyError(msg) = "permanent"
    /\ calls' = calls + 1
    /\ outcomes' = Append(outcomes, [kind |-> "permanent", bars |-> <<>>])
    /\ sleeps' = IF attempt < max_retries - 1
                 THEN Append(sleeps, [after |-> attempt, secs |-> WaitTime(attempt)])
                 ELSE sleeps
    /\ NextIteration
    /\ UNCHANGED max_retries

AttemptPermanentError(msg) ==
    /\ fpc = "loop"
    /\ ClassifyError(msg) = "permanent"
    /\ calls' = calls + 1
    /\ outcomes' = Append(outcomes, [kind |-> "permanent", bars |-> <<>>])
    /\ ret' = None
    /\ fpc' = "returned"
    /\ UNCHANGED <<max_retries, attempt, sleeps>>

AttemptRetryableError(msg) ==
    /\ fpc = "loop"
    /\ ClassifyError(msg) # "permanent"
    /\ calls' = calls + 1
    /\ outcomes' = Append(outcomes, [kind |-> ClassifyError(msg), bars |-> <<>>])
    /\ sleeps' = IF attempt < max_retries - 1
                 THEN Append(sleeps, [after |-> attempt, secs |-> WaitTime(attempt)])
                 ELSE sleeps
    /\ NextIteration
    /\ UNCHANGED max_retries

FetchReset(mr, state) ==
    /\ max_retries = mr /\ attempt = 0 /\ fpc = state /\ calls = 0
    /\ sleeps = <<>> /\ outcomes = <<>> /\ ret = None

\* the locals of download_with_retry as a new call starts
FetchRestart(state) ==
    /\ attempt' = 0 /\ fpc' = state /\ calls' = 0
    /\ sleeps' = <<>> /\ outcomes' = <<>> /\ ret' = None
    /\ UNCHANGED max_retries

NoPrediction == [isNone |-> TRUE]

MainIdle ==
    /\ pc = "idle" /\ tidx = 1 /\ downloaded_data = EmptyDict
    /\ calculated_data = EmptyDict /\ prediction = NoPrediction

Running == exit_code = -1 /\ exit_via = "none"

ScriptIdle ==
    /\ spc = "idle" /\ frames = EmptyDict /\ weighted_change = NaN /\ confidence = -1
    /\ csv_rows = -1 /\ json_written = FALSE /\ io_log = <<>>

\* one call download_with_retry(ticker, start_date, end_date, max_retries)
InitFetch ==
    /\ \E mr \in 1..MaxRetriesBound : FetchReset(mr, "loop")
    /\ MainIdle
    /\ Running
    /\ ScriptIdle

NextFetch ==
    \/ \E bars \in ProviderBars :
          AttemptSuccess(bars) /\ UNCHANGED <<mainVars, exitVars, scriptVars>>
    \/ AttemptEmpty /\ UNCHANGED <<mainVars, exitVars, scriptVars>>
    \/ \E msg \in ErrorMsgs :
          AttemptPermanentError(msg) /\ UNCHANGED <<mainVars, exitVars, scriptVars>>
    \/ \E msg \in ErrorMsgs :
          AttemptRetryableError(msg) /\ UNCHANGED <<mainVars, exitVars, scriptVars>>

SpecFetch == InitFetch /\ [][NextFetch]_vars

----------------------------------------------------------------------------
(* calculate_changes *)

PrevClose(bars) == IF Len(bars) >= 2 THEN bars[Len(bars) - 1] ELSE bars[Len(bars)]

CurrClose(bars) == bars[Len(bars)]

ChangePct(prev, curr) == FMul(FDiv(FSub(Num(curr), Num(prev)), Num(prev)), Num(100))

ChangeRecord(bars) ==
    [prev_close |-> PrevClose(bars),
     curr_close |-> CurrClose(bars),
     change_pct |-> ChangePct(PrevClose(bars), CurrClose(bars))]

\* The statements of the try block that precede the store into result raise
\* nothing on a frame with at least one bar: the division is numpy's.
CalcRaises(bars) == Len(bars) = 0

calculate_changes(dd) ==
    [t \in {u \in DOMAIN dd : ~CalcRaises(dd[u])} |-> ChangeRecord(dd[t])]

BarSeries == UNION {[1..n -> 0..MaxClose] : n \in 1..MaxBars}

CalcInputs ==
    UNION {[D -> BarSeries] : D \in {E \in SUBSET Tickers : Cardinality(E) \in 1..2}}

InitCalc ==
    /\ FetchReset(DefaultMaxRetries, "idle")
    /\ pc = "calc_input" /\ tidx = 1
    /\ downloaded_data \in CalcInputs
    /\ calculated_data = EmptyDict /\ prediction = NoPrediction
    /\ Running
    /\ ScriptIdle

CalcApply ==
    /\ pc = "calc_input"
    /\ calculated_data' = calculate_changes(downloaded_data)
    /\ pc' = "calc_output"
    /\ UNCHANGED <<tidx, downloaded_data, prediction, fetchVars, exitVars, scriptVars>>

NextCalc == CalcApply

SpecCalc == InitCalc /\ [][NextCalc]_vars

----------------------------------------------------------------------------
(* predict_opening *)

WeightedChange(sp500_change, nasdaq_change, sox_change, tsm_change, currency_change) ==
    FAdd(FAdd(FAdd(FAdd(FMul(sp500_change, MODEL_WEIGHTS.sp500),
                        FMul(nasdaq_change, MODEL_WEIGHTS.nasdaq)),
                   FMul(sox_change, MODEL_WEIGHTS.sox)),
              FMul(tsm_change, MODEL_WEIGHTS.tsm)),
         FMul(currency_change, MODEL_WEIGHTS.currency))

\* consistency_score = (1.0 if abs(weighted_change) > 0.5 else 0.7) * 0.95
\* confidence = int(consistency_score * MODEL_PARAMS['accuracy'] * 100)
Confidence(wc) ==
    LET consistency_score ==
            FMul(IF FGt(FAbs(wc), Fin(1, 2)) THEN Num(1) ELSE Fin(7, 10), Fin(95, 100))
    IN  IntTrunc(FMul(FMul(consistency_score, MODEL_PARAMS.accuracy), Num(100)))

\* the lookups of the try block raise KeyError
PredictKeyError(cd) == ~(RequiredTickers \subseteq DOMAIN cd)

PredictionOf(sp500, nasdaq, sox, tsm, currency, prev_twii_close) ==
    LET wc == WeightedChange(sp500, nasdaq, sox, tsm, currency)
        predicted_open == FMul(prev_twii_close, FAdd(Num(1), FDiv(wc, Num(100))))
        volatility_range == FMul(MODEL_PARAMS.stdDev, MODEL_PARAMS.volatility)
    IN  [isNone |-> FALSE,
         prev_close |-> prev_twii_close,
         predicted_open |-> predicted_open,
         predicted_high |-> FAdd(predicted_open, volatility_range),
         predicted_low |-> FSub(predicted_open, volatility_range),
         range_width |-> FMul(volatility_range, Num(2)),
         confidence |-> Confidence(wc),
         weighted_change |-> wc]

\* Faulty variant: a missing key reads as 0, as with dict.get(key, default)
predict_opening_default_zero(cd) ==
    LET pct(t) == IF t \in DOMAIN cd THEN cd[t].change_pct ELSE Num(0)
    IN  PredictionOf(pct("^GSPC"), pct("^IXIC"), pct("^SOX"), pct("TSM"), pct("USDTWD=X"),
                     IF "^TWII" \in DOMAIN cd THEN Num(cd["^TWII"].curr_close) ELSE Num(0))

predict_opening(cd) ==
    IF PredictKeyError(cd) THEN NoPrediction
    ELSE PredictionOf(cd["^GSPC"].change_pct, cd["^IXIC"].change_pct,
                      cd["^SOX"].change_pct, cd["TSM"].change_pct,
                      cd["USDTWD=X"].change_pct, Num(cd["^TWII"].curr_close))

----------------------------------------------------------------------------
(* main and fetch_latest_data *)

Exit(code, via) == exit_code' = code /\ exit_via' = via

Put(dict, key, value) ==
    [k \in DOMAIN dict \cup {key} |-> IF k = key THEN value ELSE dict[k]]

InitMain ==
    /\ FetchReset(DefaultMaxRetries, "loop")
    /\ pc = "fetch" /\ tidx = 1 /\ downloaded_data = EmptyDict
    /\ calculated_data = EmptyDict /\ prediction = NoPrediction
    /\ Running
    /\ ScriptIdle

\* the provider answers the download_with_retry call of the ticker being fetched
FetchAttempt ==
    /\ pc = "fetch"
    /\ \/ \E bars \in ProviderBars : AttemptSuccess(bars)
       \/ AttemptEmpty
       \/ \E msg \in ErrorMsgs : AttemptPermanentError(msg)
       \/ \E msg \in ErrorMsgs : AttemptRetryableError(msg)
    /\ UNCHANGED <<mainVars, exitVars, scriptVars>>

\* fetch_latest_data: the loop body after download_with_retry returned, then,
\* after the last ticker, the check of the number of downloaded instruments
StoreDownload ==
    /\ pc = "fetch"
    /\ fpc = "returned"
    /\ LET dd == IF ret.isNone THEN downloaded_data
                 ELSE Put(downloaded_data, TickerOrder[tidx], ret.bars)
       IN  /\ downloaded_data' = dd
           /\ IF tidx < Len(TickerOrder)
              THEN /\ tidx' = tidx + 1
                   /\ FetchRestart("loop")
                   /\ pc' = "fetch"
                   /\ UNCHANGED exitVars
              ELSE /\ tidx' = tidx
                   /\ FetchRestart("idle")
                   /\ IF Cardinality(DOMAIN dd) < MinInstruments
                      THEN pc' = "exited" /\ Exit(1, "fetch_failed")
                      ELSE pc' = "calc" /\ UNCHANGED exitVars
    /\ UNCHANGED <<calculated_data, prediction, scriptVars>>

MainCalculate ==
    /\ pc = "calc"
    /\ calculated_data' = calculate_changes(downloaded_data)
    /\ IF Cardinality(DOMAIN calculated_data') < MinInstruments
       THEN pc' = "exited" /\ Exit(1, "calc_failed")
       ELSE pc' = "predict" /\ UNCHANGED exitVars
    /\ UNCHANGED <<tidx, downloaded_data, prediction, fetchVars, scriptVars>>

\* Faulty variant: the check of predict_opening's result is missing
MainPredictUnchecked ==
    /\ pc = "predict"
    /\ prediction' = predict_opening(calculated_data)
    /\ pc' = "perf"
    /\ UNCHANGED exitVars
    /\ UNCHANGED <<tidx, downloaded_data, calculated_data, fetchVars, scriptVars>>

MainPredict ==
    /\ pc = "predict"
    /\ prediction' = predict_opening(calculated_data)
    /\ IF prediction'.isNone
       THEN pc' = "exited" /\ Exit(1, "predict_failed")
       ELSE pc' = "perf" /\ UNCHANGED exitVars
    /\ UNCHANGED <<tidx, downloaded_data, calculated_data, fetchVars, scriptVars>>

\* show_backtest_performance and the closing prints; main returns
MainFinish ==
    /\ pc = "perf"
    /\ pc' = "exited"
    /\ Exit(0, "completed")
    /\ UNCHANGED <<tidx, downloaded_data, calculated_data, prediction, fetchVars, scriptVars>>

InTry == pc \in {"fetch", "calc", "predict", "perf"}

\* except KeyboardInterrupt: sys.exit(0)
MainKeyboardInterrupt ==
    /\ InTry
    /\ pc' = "exited"
    /\ Exit(0, "interrupted")
    /\ UNCHANGED <<tidx, downloaded_data, calculated_data, prediction, fetchVars, scriptVars>>

\* except Exception: sys.exit(1)
MainUnexpectedException ==
    /\ InTry
    /\ pc' = "exited"
    /\ Exit(1, "error")
    /\ UNCHANGED <<tidx, downloaded_data, calculated_data, prediction, fetchVars, scriptVars>>

NextMain ==
    \/ FetchAttempt
    \/ StoreDownload
    \/ MainCalculate
    \/ MainPredict
    \/ MainFinish
    \/ MainKeyboardInterrupt
    \/ MainUnexpectedException

SpecMain == InitMain /\ [][NextMain]_vars

----------------------------------------------------------------------------
(* The module-level script: download, compute, save to CSV and JSON.  The  *)
(* choice of data_date and the presentation values of result_dict (rounded *)
(* copies of the globals) are not modelled.                                *)

\* yf.download may return an empty frame
ScriptBars == ProviderBars \cup {<<>>}

InitScript ==
    /\ FetchReset(DefaultMaxRetries, "idle")
    /\ MainIdle
    /\ Running
    /\ spc = "download" /\ frames = EmptyDict /\ weighted_change = NaN /\ confidence = -1
    /\ csv_rows \in -1..MaxCsvRows
    /\ json_written = FALSE /\ io_log = <<>>

ScriptExit(code, via) == spc' = "exited" /\ Exit(code, via)

\* the six yf.download calls return, and sp500 and twii are checked for emptiness
ScriptDownload ==
    /\ spc = "download"
    /\ \E f \in [Tickers -> ScriptBars] :
          /\ frames' = f
          /\ IF Len(f["^GSPC"]) = 0 \/ Len(f["^TWII"]) = 0
             THEN ScriptExit(1, "no_market_data")
             ELSE spc' = "compute" /\ UNCHANGED exitVars
    /\ UNCHANGED <<weighted_change, confidence, csv_rows, json_written, io_log,
                   fetchVars, mainVars>>

\* one of the yf.download calls raises: except Exception, exit(1)
ScriptDownloadError ==
    /\ spc = "download"
    /\ ScriptExit(1, "download_failed")
    /\ UNCHANGED <<frames, weighted_change, confidence, csv_rows, json_written, io_log,
                   fetchVars, mainVars>>

\* safe_get_price raises IndexError on an empty frame, in the try and in the handler
SafeGetPriceRaises(bars) == Len(bars) = 0

\* safe_get_price(df, -2) if len(df) > 1 else safe_get_price(df, -1)
ScriptPrev(bars) == IF Len(bars) > 1 THEN bars[Len(bars) - 1] ELSE bars[Len(bars)]

\* the closes are Python floats here: dividing by 0.0 raises ZeroDivisionError
ScriptChange(bars) == ChangePct(ScriptPrev(bars), bars[Len(bars)])

ChangeTickers == {"^GSPC", "^IXIC", "^SOX", "TSM", "USDTWD=X"}

\* consistency_score = (abs(weighted_change) > 0.5) * 0.25 + 0.7
\* confidence = int(consistency_score * MODEL_PARAMS['accuracy'] * 100)
ScriptConfidence(wc) ==
    LET consistency_score ==
            FAdd(FMul(IF FGt(FAbs(wc), Fin(1, 2)) THEN Num(1) ELSE Num(0), Fin(25, 100)),
                 Fin(7, 10))
    IN  IntTrunc(FMul(FMul(consistency_score, MODEL_PARAMS.accuracy), Num(100)))

ScriptCompute ==
    /\ spc = "compute"
    /\ IF \E t \in Tickers : SafeGetPriceRaises(frames[t])
       THEN /\ ScriptExit(1, "IndexError")
            /\ UNCHANGED <<weighted_change, confidence>>
       ELSE IF \E t \in ChangeTickers : ScriptPrev(frames[t]) = 0
       THEN /\ ScriptExit(1, "ZeroDivisionError")
            /\ UNCHANGED <<weighted_change, confidence>>
       ELSE /\ weighted_change' =
                  WeightedChange(ScriptChange(frames["^GSPC"]), ScriptChange(frames["^IXIC"]),
                                 ScriptChange(frames["^SOX"]), ScriptChange(frames["TSM"]),
                                 ScriptChange(frames["USDTWD=X"]))
            /\ confidence' = ScriptConfidence(weighted_change')
            /\ spc' = "save_csv"
            /\ UNCHANGED exitVars
    /\ UNCHANGED <<frames, csv_rows, json_written, io_log, fetchVars, mainVars>>

\* read the existing predictions.csv if any, append the record, write the file;
\* an exception raised by pandas or the file system is caught nowhere
ScriptSaveCsv(ok) ==
    /\ spc = "save_csv"
    /\ io_log' = Append(io_log, [op |-> "csv", ok |-> ok])
    /\ IF ok
       THEN /\ csv_rows' = (IF csv_rows = -1 THEN 1 ELSE csv_rows + 1)
            /\ spc' = "save_json"
            /\ UNCHANGED exitVars
       ELSE /\ csv_rows' = csv_rows
            /\ ScriptExit(1, "csv_error")
    /\ UNCHANGED <<frames, weighted_change, confidence, json_written, fetchVars, mainVars>>

\* overwrite latest_prediction.json; an exception is caught nowhere
ScriptSaveJson(ok) ==
    /\ spc = "save_json"
    /\ io_log' = Append(io_log, [op |-> "json", ok |-> ok])
    /\ IF ok
       THEN /\ json_written' = TRUE
            /\ spc' = "stats"
            /\ UNCHANGED exitVars
       ELSE /\ json_written' = json_written
            /\ ScriptExit(1, "json_error")
    /\ UNCHANGED <<frames, weighted_change, confidence, csv_rows, fetchVars, mainVars>>

\* the closing statistics are printed and the script ends
ScriptFinish ==
    /\ spc = "stats"
    /\ ScriptExit(0, "completed")
    /\ UNCHANGED <<frames, weighted_change, confidence, csv_rows, json_written, io_log,
                   fetchVars, mainVars>>

NextScript ==
    \/ ScriptDownload
    \/ ScriptDownloadError
    \/ ScriptCompute
    \/ \E ok \in BOOLEAN : ScriptSaveCsv(ok)
    \/ \E ok \in BOOLEAN : ScriptSaveJson(ok)
    \/ ScriptFinish

SpecScript == InitScript /\ [][NextScript]_vars

----------------------------------------------------------------------------
(* Properties of download_with_retry, checked under SpecFetch *)

Retryable(kind) == kind \in {"transient", "unknown"}

\* C1: a transient or unknown failure of the attempt with 0-based index i, when
\* another attempt remains, is followed by a sleep of exactly 2 * 2^i seconds.
C1_BackoffTwoTimesPowerOfTwo ==
    \A k \in DOMAIN outcomes :
        (Retryable(outcomes[k].kind) /\ k < max_retries) =>
            \E j \in DOMAIN sleeps :
                sleeps[j].after = k - 1 /\ sleeps[j].secs = 2 * Pow2(k - 1)

\* C2: an attempt that returns zero bars is the last provider call of the fetch.
C2_EmptyEndsFetch ==
    \A k \in DOMAIN outcomes :
        outcomes[k].kind = "empty" => (Len(outcomes) = k /\ calls = k)

\* C3: a permanent provider error ends the fetch at once: the instrument is
\* unavailable, no sleep follows that attempt and no further call is made.
C3_PermanentEndsFetch ==
    \A k \in DOMAIN outcomes :
        outcomes[k].kind = "permanent" =>
            /\ Len(outcomes) = k
            /\ calls = k
            /\ fpc = "returned"
            /\ ret = None
            /\ \A j \in DOMAIN sleeps : sleeps[j].after # k - 1

C3_Witness ==
    /\ max_retries = 3
    /\ Len(outcomes) = 2
    /\ Retryable(outcomes[1].kind)
    /\ outcomes[2].kind = "permanent"
    /\ fpc = "returned"

FirstEnding(outs) ==
    LET E == {k \in DOMAIN outs : outs[k].kind \in {"ok", "permanent"}}
    IN  IF E = {} THEN 0 ELSE CHOOSE k \in E : \A j \in E : k <= j

\* C4: the fetch makes at most max_retries provider calls and has returned once
\* it made that many; it returns the series of the first attempt that delivered
\* bars unless a permanent error came first, and None otherwise.
C4_BoundedAndLateSuccessKept ==
    /\ calls = Len(outcomes)
    /\ calls <= max_retries
    /\ (fpc = "loop") => (calls < max_retries /\ FirstEnding(outcomes) = 0)
    /\ (fpc = "returned") =>
          LET k == FirstEnding(outcomes)
          IN  /\ (k = 0) => (ret = None /\ calls = max_retries)
              /\ (k # 0) => calls = k
              /\ (k # 0 /\ outcomes[k].kind = "ok") => ret = Some(outcomes[k].bars)
              /\ (k # 0 /\ outcomes[k].kind = "permanent") => ret = None

C4_Witness ==
    /\ max_retries = 3
    /\ Len(outcomes) = 3
    /\ outcomes[1].kind = "transient"
    /\ outcomes[2].kind = "transient"
    /\ outcomes[3].kind = "ok"
    /\ fpc = "returned"
    /\ ret = Some(outcomes[3].bars)

----------------------------------------------------------------------------
(* Properties of main, checked under SpecMain *)

WeightedInstruments == {"^GSPC", "^IXIC", "^SOX", "TSM", "USDTWD=X"}

TargetIndex == "^TWII"

PredictionComputed == ~prediction.isNone

\* C5: when the Change Record of a weighted instrument or of the target index is
\* missing, predict_opening yields no Prediction Result and the run does not
\* go on to complete with one.
C5_MissingRecordNoPrediction ==
    (pc \in {"predict", "perf", "exited"} /\
     \E t \in WeightedInstruments \cup {TargetIndex} : t \notin DOMAIN calculated_data)
        => (~PredictionComputed /\ pc # "perf" /\ exit_via # "completed")

C5_Witness ==
    /\ exit_via = "predict_failed"
    /\ Cardinality(DOMAIN calculated_data) = 5
    /\ "TSM" \notin DOMAIN calculated_data
    /\ ~PredictionComputed

FetchedTooFew ==
    /\ tidx = Len(TickerOrder)
    /\ fpc = "idle"
    /\ Cardinality(DOMAIN downloaded_data) < 4

\* C6 as claimed: the process exits with 0 only after a prediction was computed,
\* and exits non-zero when too few instruments were fetched or predict_opening
\* reported insufficient data.
C6_ExitZeroOnlyWithPrediction ==
    (pc = "exited") =>
        /\ (exit_code = 0) => PredictionComputed
        /\ (FetchedTooFew \/ exit_via = "predict_failed") => exit_code # 0

\* C6 as amended: the same on every run that the user does not interrupt; a run
\* ended by KeyboardInterrupt exits with 0, with or without a prediction.
C6_ExitZeroOnlyWithPredictionOrInterrupt ==
    /\ (exit_code = 0) <=> (pc = "exited" /\ exit_via \in {"completed", "interrupted"})
    /\ (pc = "exited" /\ exit_via # "interrupted") =>
          /\ (exit_code = 0) => PredictionComputed
          /\ (FetchedTooFew \/ exit_via = "predict_failed") => exit_code # 0
    /\ (pc = "perf") => PredictionComputed

C6_Witness ==
    /\ pc = "exited"
    /\ exit_via = "completed"
    /\ exit_code = 0
    /\ PredictionComputed
    /\ FGt(FAbs(prediction.weighted_change), Fin(1, 2))

\* C8: the confidence of predict_opening is 83 when |weighted_change| > 0.5 and
\* 58 otherwise (stated here for the runs whose change_pct values are all finite).
C8_ConfidenceIs83Or58 ==
    (PredictionComputed /\ \A t \in DOMAIN calculated_data :
                              IsFin(calculated_data[t].change_pct)) =>
        prediction.confidence =
            (IF FGt(FAbs(prediction.weighted_change), Fin(1, 2)) THEN 83 ELSE 58)

----------------------------------------------------------------------------
(* Properties of the persisting script, checked under SpecScript *)

Attempted(op) == \E i \in DOMAIN io_log : io_log[i].op = op

Failed(op) == \E i \in DOMAIN io_log : io_log[i].op = op /\ ~io_log[i].ok

\* C7: once the prediction is computed, a failure of the CSV append or of the
\* JSON snapshot write leaves the run a success, and a failed CSV append is
\* still followed by the attempt to write the snapshot.
C7_PersistenceFailureKeepsSuccess ==
    (spc = "exited" /\ confidence # -1) =>
        /\ exit_code = 0
        /\ Failed("csv") => Attempted("json")

----------------------------------------------------------------------------
(* Properties of calculate_changes, checked under SpecCalc *)

\* C9: with two or more bars the record holds the second-to-last and the last
\* close; with one bar both closes are that bar's and change_pct is 0.
C9_LastTwoClosesOrZeroChange ==
    (pc = "calc_output") =>
        \A t \in DOMAIN calculated_data :
            LET b == downloaded_data[t]
                r == calculated_data[t]
            IN  /\ (Len(b) >= 2) =>
                      (r.prev_close = b[Len(b) - 1] /\ r.curr_close = b[Len(b)])
                /\ (Len(b) = 1) =>
                      (r.prev_close = b[1] /\ r.curr_close = b[1] /\ r.change_pct = Num(0))

\* C10: an instrument whose previous close is 0 gets no Change Record, no stored
\* change_pct is infinite or undefined, and every other instrument gets its record.
C10_ZeroPreviousCloseSkipped ==
    (pc = "calc_output") =>
        \A t \in DOMAIN downloaded_data :
            LET b == downloaded_data[t]
                prev == IF Len(b) >= 2 THEN b[Len(b) - 1] ELSE b[Len(b)]
            IN  IF prev = 0
                THEN t \notin DOMAIN calculated_data
                ELSE t \in DOMAIN calculated_data /\ IsFin(calculated_data[t].change_pct)

====
